---- MODULE Spec2Model ----
(***************************************************************************)
(* A model of plexbackup's backup package: Run (list the oldest backup,    *)
(* stop Plex, archive | compress | upload, start Plex, delete the oldest   *)
(* backup) in two of its versions:                                         *)
(*   "zstd"  src/unnamed/part_006: tar process, in-process zstd encoder    *)
(*           in a goroutine, upload in a second goroutine;                 *)
(*   "gz"    src/backup/backup.go: tar and gz processes joined by an OS    *)
(*           pipe, upload called synchronously by Run.                     *)
(* One behaviour is a sequence of runs of one version of the program on    *)
(* one bucket prefix, starting from an empty prefix.  A byte stream is a   *)
(* count of units; pipes hold at most PipeCap units.                       *)
(* A third, older version is run by SpecOlder only:                        *)
(*   "xz"    src/unnamed/part_008: as "gz", but Plex is started as soon as *)
(*           the upload returns, before tar is waited for, and gz is not   *)
(*           waited for.                                                   *)
(* Spec is the program as main runs it; SpecCancel adds a caller of Run    *)
(* that cancels the context; KeySpec applies the key computation to        *)
(* prefixes and instants, with the key as text.                            *)
(***************************************************************************)
EXTENDS Integers, Sequences, FiniteSets, TLC

\* ---------------------------------------------------------------- bounds
MaxRuns == 2     \* runs of the program in one behaviour
MaxTime == 2     \* the clock shows seconds 1..MaxTime
MaxData == 4     \* units of archive data tar has to write in one run
PipeCap == 1     \* units an OS pipe buffers before a write blocks
MaxStep == 2     \* instants taken at 0..MaxStep steps from each base instant
MaxList == 3     \* objects in a listing given to oldestObject on its own

\* ------------------------------------------------------------- constants
Variants == {"zstd", "gz"}
OlderVariants == {"xz"}
Prefix   == "plex/"
NoObject == [key |-> <<>>, lm |-> 0]      \* the nil *s3.Object
NoListing == [contents |-> <<>>, ok |-> TRUE, oldest |-> NoObject,
              err |-> FALSE, called |-> FALSE]   \* oldestObject not called
NoKey    == [prefix |-> <<>>, t |-> -1, key |-> <<>>]  \* no key computed

VARIABLES
  variant,      \* which version of the package is running
  loopVarPerIter, \* build: does `for _, object := range` make a fresh
                \* variable per iteration (go >= 1.22) or one per loop
  now,          \* wall clock, in seconds
  bucket,       \* objects under the prefix: records [key, lm, complete]
  svcRunning,   \* is the Plex systemd unit active
  listed,       \* the last call of oldestObject on its own: the listing,
                \* the list call's outcome, the object and error returned
                \* (ListSpec only)
  keyed,        \* the last two key computations: [prev, cur], each a
                \* record [prefix, t, key] (KeySpec only)
  runs,         \* runs started so far
  cancelled,    \* the caller cancelled the ctx passed to this run
  pc,           \* position of Run
  noPause,      \* Opts.NoPause of the current run
  oldest,       \* Run's local `oldest`
  key,          \* the key of this run's upload (<<>> before it is computed)
  calls,        \* external calls of this run, in order: [op, res]
  deletedKey,   \* the key this run passed to DeleteObject (<<>>: none)
  keysAtStart,  \* the keys under the prefix when this run began (history)
  backupsAtStart, \* the complete objects under the prefix when this run
                \* began (history)
  ret,          \* what Run returned: "none", "nil" or "error"
  reported,     \* the failures the returned error reports
  failures,     \* failures that happened in this run (history)
  tarState,     \* the tar process: "notstarted", "running", "exited"
  tarExit,      \* its exit status: "none", "ok", "fail"
  tarTotal,     \* units of the complete archive
  tarLeft,      \* units tar has still to write
  tarPipe,      \* units buffered in tar's stdout pipe
  rdClosed,     \* the parent closed the read end of tar's stdout pipe
  cState,       \* the compression goroutine of part_006
  cErr,         \* the error enc.ReadFrom returned
  encBuf,       \* units read by the encoder and not yet written
  zClosed,      \* zstdWriter.Close() was called
  uState,       \* the upload: "notstarted", "reading", "sending", "done"
  uRecv,        \* units the upload has read from its body
  uTrailer,     \* the upload has read the encoder's final block
  uploadErr,    \* the upload's result: "none", "nil", "fail"
  gzState,      \* the gz process of backup.go
  gzExit,       \* its exit status
  gzPipe,       \* units buffered in gz's stdout pipe
  readBytes,    \* countingreader: ReadBytes, units read through `reader`
  loggedBytes   \* the compressed_bytes backup logged (-1: nothing logged)

envVars   == <<variant, loopVarPerIter, keyed, listed, now, bucket,
              svcRunning>>
startVars == <<keysAtStart, backupsAtStart>>
runVars   == <<runs, cancelled, pc, noPause, oldest, key, calls, deletedKey,
              startVars, ret, reported, failures>>
tarVars   == <<tarState, tarExit, tarTotal, tarLeft, tarPipe, rdClosed>>
cVars     == <<cState, cErr, encBuf, zClosed>>
uVars     == <<uState, uRecv, uTrailer, uploadErr>>
gzVars    == <<gzState, gzExit, gzPipe>>
crVars    == <<readBytes, loggedBytes>>
vars      == <<envVars, runVars, tarVars, cVars, uVars, gzVars,
              crVars>>

\* ------------------------------------------------------------ pure parts

\* The archive extension of a version.
Ext(v) == IF v = "zstd" THEN ".tar.zst"
          ELSE IF v = "gz" THEN ".tar.gz" ELSE ".tar.xz"

\* o.Prefix + time.Now().UTC().Format(time.RFC3339) + ext: the timestamp has
\* one-second resolution, so the key is a function of the second.
calculateKey(v, prefix, t) == <<prefix, t, Ext(v)>>

\* ---- the key as text: a string is a sequence of one-character strings

ExtChars(v) ==
  IF v = "zstd" THEN <<".", "t", "a", "r", ".", "z", "s", "t">>
                ELSE <<".", "t", "a", "r", ".", "g", "z">>

Digit == <<"0", "1", "2", "3", "4", "5", "6", "7", "8", "9">>

Two(n)  == <<Digit[((n \div 10) % 10) + 1], Digit[(n % 10) + 1]>>
Four(n) == Two(n \div 100) \o Two(n % 100)

\* The civil date (UTC) of a day counted from 1970-01-01, as time.Time
\* computes it for the proleptic Gregorian calendar.
CivilFromDays(days) ==
  LET z   == days + 719468
      era == z \div 146097
      doe == z % 146097
      yoe == (doe - doe \div 1460 + doe \div 36524 - doe \div 146096)
               \div 365
      doy == doe - (365 * yoe + yoe \div 4 - yoe \div 100)
      mp  == (5 * doy + 2) \div 153
      m   == IF mp < 10 THEN mp + 3 ELSE mp - 9
  IN  [y |-> yoe + era * 400 + (IF m <= 2 THEN 1 ELSE 0),
       m |-> m,
       d |-> doy - (153 * mp + 2) \div 5 + 1]

\* The hour field of the layout: "15" is the hour of the day, 00..23.
Hour24(sec) == (sec % 86400) \div 3600
\* (variant of the field above for the twelve-hour layout "03")
Hour12(sec) == IF (Hour24(sec) % 12) = 0 THEN 12 ELSE Hour24(sec) % 12

\* The layout "2006-01-02T15:04:05Z07:00" applied to a UTC time.
Stamp(sec, hh) ==
  LET c == CivilFromDays(sec \div 86400)
  IN  Four(c.y) \o <<"-">> \o Two(c.m) \o <<"-">> \o Two(c.d) \o <<"T">>
      \o Two(hh) \o <<":">> \o Two((sec % 3600) \div 60) \o <<":">>
      \o Two(sec % 60) \o <<"Z">>

\* (variant of the function below with the twelve-hour layout)
FormatKitchenHours(sec) == Stamp(sec, Hour12(sec))

\* time.Now().UTC().Format(time.RFC3339), of the Unix second `sec`.
FormatRFC3339(sec) == Stamp(sec, Hour24(sec))

\* (variant of the function below that joins prefix and name as path.Join
\* does: a "/" between them unless the prefix is empty or ends in one)
KeyTextJoined(v, prefix, sec) ==
  (IF prefix = <<>> \/ prefix[Len(prefix)] = "/"
     THEN prefix ELSE prefix \o <<"/">>)
  \o FormatRFC3339(sec) \o ExtChars(v)

\* The text of the key calculateKey stands for.
KeyText(v, prefix, sec) == prefix \o FormatRFC3339(sec) \o ExtChars(v)

\* ListObjects returns the objects under the prefix in key order.
RECURSIVE SortByKey(_)
SortByKey(objs) ==
  IF objs = {} THEN <<>>
  ELSE LET first == CHOOSE o \in objs : \A p \in objs : o.key[2] <= p.key[2]
       IN  <<first>> \o SortByKey(objs \ {first})

Listing(b) == SortByKey({[key |-> o.key, lm |-> o.lm] : o \in b})

\* The loop of oldestObject with a fresh `object` per iteration (backup.go,
\* and part_006 built with per-iteration loop variables): the first object
\* with the least LastModified.
RECURSIVE OldestFrom(_, _, _)
OldestFrom(contents, i, acc) ==
  IF i > Len(contents) THEN acc
  ELSE IF acc = NoObject \/ contents[i].lm < acc.lm
       THEN OldestFrom(contents, i + 1, contents[i])
       ELSE OldestFrom(contents, i + 1, acc)

\* The same loop when `object` is one variable for the whole loop and
\* `oldest = &object` points at it: after the first iteration oldest aliases
\* the loop variable, so it ends as the last object listed.
OldestAliased(contents) ==
  IF contents = <<>> THEN NoObject ELSE contents[Len(contents)]

\* (variant of the function below that starts from an empty object in place
\* of nil, and so returns a non-nil object for an empty listing)
oldestObjectZeroValue(v, perIter, contents) ==
  IF contents = <<>> THEN [key |-> <<"", 0, "">>, lm |-> 0]
  ELSE OldestFrom(contents, 1, NoObject)

oldestObject(v, perIter, contents) ==
  IF v = "zstd" /\ ~perIter THEN OldestAliased(contents)
  ELSE OldestFrom(contents, 1, NoObject)

\* ---------------------------------------------------------------- Init
PipelineInit ==
  /\ tarState = "notstarted" /\ tarExit = "none" /\ tarTotal = 0
  /\ tarLeft = 0 /\ tarPipe = 0 /\ rdClosed = FALSE
  /\ cState = "notstarted" /\ cErr = FALSE /\ encBuf = 0
  /\ zClosed = FALSE
  /\ uState = "notstarted" /\ uRecv = 0 /\ uTrailer = FALSE
  /\ uploadErr = "none"
  /\ gzState = "notstarted" /\ gzExit = "none" /\ gzPipe = 0
  /\ readBytes = 0 /\ loggedBytes = -1

InitOf(versions) ==
  /\ variant \in versions
  /\ loopVarPerIter \in (IF variant = "zstd" THEN BOOLEAN ELSE {TRUE})
  /\ keyed = [prev |-> NoKey, cur |-> NoKey]
  /\ listed = NoListing
  /\ now = 1
  /\ bucket = {}
  /\ svcRunning = TRUE
  /\ runs = 0
  /\ cancelled = FALSE
  /\ pc = "idle"
  /\ noPause = FALSE
  /\ oldest = NoObject
  /\ key = <<>>
  /\ calls = <<>>
  /\ deletedKey = <<>>
  /\ keysAtStart = {}
  /\ backupsAtStart = {}
  /\ ret = "none"
  /\ reported = {}
  /\ failures = {}
  /\ PipelineInit

Init == InitOf(Variants)

\* ----------------------------------------------------------- environment

\* The wall clock moves on by a second.
Tick ==
  /\ now < MaxTime
  /\ now' = now + 1
  /\ UNCHANGED <<variant, loopVarPerIter, keyed, listed, bucket, svcRunning>>
  /\ UNCHANGED <<runVars, tarVars, cVars, uVars, gzVars>>
  /\ UNCHANGED crVars

\* ------------------------------------------------------------- Run, both

Running == pc \notin {"idle", "returned"}

\* ctx.Err() == nil: a call that takes the context (ListObjectsV2,
\* exec.CommandContext, Upload, DeleteObject) can only succeed while it is
\* not cancelled.
CtxLive == ~cancelled

Call(op, res) == calls' = Append(calls, [op |-> op, res |-> res])

\* `return fmt.Errorf(...)`: Run returns an error that reports `what`.
ReturnErr(what) ==
  /\ pc' = "returned"
  /\ ret' = "error"
  /\ reported' = what

\* `return nil`
ReturnNil ==
  /\ pc' = "returned"
  /\ ret' = "nil"
  /\ reported' = {}

\* main calls Run with the options of the command line: a new process, so
\* nothing of an earlier run's pipeline is left.
StartRun(np) ==
  /\ pc \in {"idle", "returned"}
  /\ runs < MaxRuns
  /\ runs' = runs + 1
  /\ cancelled' = FALSE
  /\ noPause' = np
  /\ pc' = "list"
  /\ oldest' = NoObject
  /\ key' = <<>>
  /\ calls' = <<>>
  /\ deletedKey' = <<>>
  /\ keysAtStart' = {o.key : o \in bucket}
  /\ backupsAtStart' = {o \in bucket : o.complete}
  /\ ret' = "none"
  /\ reported' = {}
  /\ failures' = {}
  /\ tarState' = "notstarted" /\ tarExit' = "none" /\ tarTotal' = 0
  /\ tarLeft' = 0 /\ tarPipe' = 0 /\ rdClosed' = FALSE
  /\ cState' = "notstarted" /\ cErr' = FALSE /\ encBuf' = 0
  /\ zClosed' = FALSE
  /\ uState' = "notstarted" /\ uRecv' = 0 /\ uTrailer' = FALSE
  /\ uploadErr' = "none"
  /\ gzState' = "notstarted" /\ gzExit' = "none" /\ gzPipe' = 0
  /\ readBytes' = 0 /\ loggedBytes' = -1
  /\ UNCHANGED envVars

\* `if err != nil` after oldestObject.
\* (variant of the check below that ignores the listing's error)
ListFailedNever(ok) == FALSE
ListFailed(ok) == ~ok

\* oldest, err := oldestObject(...); if err != nil { return ... }
List(ok) ==
  /\ pc = "list"
  /\ ok => CtxLive
  /\ Call("list", IF ok THEN "ok" ELSE "fail")
  /\ oldest' = IF ok
                 THEN oldestObject(variant, loopVarPerIter, Listing(bucket))
                 ELSE NoObject
  /\ failures' = IF ok THEN failures ELSE failures \cup {"list"}
  /\ IF ListFailed(ok)
       THEN ReturnErr({"list"})
       ELSE /\ pc' = IF noPause THEN "pipe" ELSE "stop"
            /\ UNCHANGED <<ret, reported>>
  /\ UNCHANGED <<runs, cancelled, noPause, key, deletedKey, startVars>>
  /\ UNCHANGED <<envVars, tarVars, cVars, uVars, gzVars>>
  /\ UNCHANGED crVars

\* `if err != nil` after systemctl stop.
\* (variant of the check below that ignores stop's error)
StopFailedNever(ok) == FALSE
StopFailed(ok) == ~ok

\* if !o.NoPause { systemctl stop; if err != nil { return ... } }
Stop(ok) ==
  /\ pc = "stop"
  /\ ok => CtxLive
  /\ Call("stop", IF ok THEN "ok" ELSE "fail")
  /\ svcRunning' = IF ok THEN FALSE ELSE svcRunning
  /\ failures' = IF ok THEN failures ELSE failures \cup {"stop"}
  /\ IF StopFailed(ok)
       THEN ReturnErr({"stop"})
       ELSE /\ pc' = "pipe"
            /\ UNCHANGED <<ret, reported>>
  /\ UNCHANGED <<runs, cancelled, noPause,
                 oldest, key, deletedKey, startVars>>
  /\ UNCHANGED <<variant, loopVarPerIter, keyed, listed, now, bucket>>
  /\ UNCHANGED <<tarVars, cVars, uVars, gzVars>>
  /\ UNCHANGED crVars

\* (variants of the step below: one never starts the service, one starts
\* it whatever NoPause says)
AfterBackupNoStart == "delete"
AfterBackupAlwaysStart == "start"

\* The position after the pipeline step succeeded.
AfterBackup == IF noPause THEN "delete" ELSE "start"

\* `if err != nil` after systemctl start.
\* (variant of the check below that ignores start's error)
StartFailedNever(ok) == FALSE
StartFailed(ok) == ~ok

\* if !o.NoPause { systemctl start; if err != nil { return ... } }
\* In backup.go the upload's error is looked at only after this.
Start(ok) ==
  /\ pc = "start"
  /\ ok => CtxLive
  /\ Call("start", IF ok THEN "ok" ELSE "fail")
  /\ svcRunning' = IF ok THEN TRUE ELSE svcRunning
  /\ failures' = IF ok THEN failures ELSE failures \cup {"start"}
  /\ IF StartFailed(ok)
       THEN ReturnErr({"start"})
       ELSE /\ pc' = IF variant = "gz" THEN "checkUpload"
                     ELSE IF variant = "xz" THEN "tarWait" ELSE "delete"
            /\ UNCHANGED <<ret, reported>>
  /\ UNCHANGED <<runs, cancelled, noPause,
                 oldest, key, deletedKey, startVars>>
  /\ UNCHANGED <<variant, loopVarPerIter, keyed, listed, now, bucket>>
  /\ UNCHANGED <<tarVars, cVars, uVars, gzVars>>
  /\ UNCHANGED crVars

\* (variants of the key below: the key of no object, and the key of the
\* upload just made)
DeleteTargetNone == <<>>
DeleteTargetNewKey == key

\* Key: oldest.Key, of the object found before the pipeline ran.
DeleteTarget == oldest.key

\* What follows DeleteObject: its error is logged, and Run returns nil.
\* (variant of the step below that returns the delete's error)
AfterDeleteFatal(ok) == IF ok THEN ReturnNil ELSE ReturnErr({"delete"})
AfterDelete(ok) == ReturnNil

\* if oldest != nil { DeleteObject(oldest.Key); a failure is only logged }
\* return nil
Delete(ok) ==
  /\ pc = "delete"
  /\ IF oldest = NoObject
       THEN /\ ok
            /\ UNCHANGED <<bucket, calls, failures, deletedKey>>
       ELSE /\ deletedKey' = DeleteTarget
            /\ IF ok
                 THEN /\ CtxLive
                      /\ bucket' = {o \in bucket : o.key # DeleteTarget}
                      /\ Call("delete", "ok")
                      /\ UNCHANGED failures
                 ELSE /\ Call("delete", "fail")
                      /\ failures' = failures \cup {"delete"}
                      /\ UNCHANGED bucket
  /\ AfterDelete(ok)
  /\ UNCHANGED <<runs, cancelled, noPause, oldest, key, startVars>>
  /\ UNCHANGED <<variant, loopVarPerIter, keyed, listed, now, svcRunning>>
  /\ UNCHANGED <<tarVars, cVars, uVars, gzVars>>
  /\ UNCHANGED crVars

\* -------------------------------------------------- the pipeline, common

\* PutObject completed: the object is stored under `key` (replacing an
\* object of the same key) with the units the upload read; it is a complete
\* backup when it holds the whole archive and the compressor's final block.
Stored(payload, trailer) ==
  [key |-> key, lm |-> now,
   complete |-> (payload = tarTotal /\ trailer)]

PutObject(payload, trailer) ==
  bucket' = {o \in bucket : o.key # key} \cup {Stored(payload, trailer)}

\* tar.StdoutPipe() (and gz.StdoutPipe() in backup.go): os.Pipe can fail.
\* In part_006, backup then makes the in-memory pipe and the encoder (with
\* no options zstd.NewWriter cannot fail), starts the compression goroutine,
\* computes the key and starts the upload goroutine.
PipeSetup(ok) ==
  /\ pc = "pipe"
  /\ IF ~ok
       THEN /\ failures' = failures \cup {"pipe"}
            /\ ReturnErr({"pipe"})
            /\ UNCHANGED <<key, calls, cState, uState>>
       ELSE /\ pc' = "tarStart"
            /\ UNCHANGED <<ret, reported, failures>>
            /\ IF variant = "zstd"
                 THEN /\ cState' = "reading"
                      /\ uState' = "reading"
                      /\ key' = calculateKey(variant, Prefix, now)
                      /\ Call("upload", "invoked")
                 ELSE UNCHANGED <<key, calls, cState, uState>>
  /\ UNCHANGED <<runs, cancelled, noPause, oldest, deletedKey, startVars>>
  /\ UNCHANGED <<cErr, encBuf, zClosed, uRecv, uTrailer, uploadErr>>
  /\ UNCHANGED <<envVars, tarVars, gzVars>>
  /\ UNCHANGED crVars

\* tar.Start(): on failure os/exec closes both ends of the stdout pipe.
TarStart(ok) ==
  /\ pc = "tarStart"
  /\ ok => CtxLive
  /\ IF ok
       THEN /\ \E n \in 1..MaxData : tarTotal' = n /\ tarLeft' = n
            /\ tarState' = "running"
            /\ pc' = IF variant = "zstd" THEN "tarWait" ELSE "gzStart"
            /\ UNCHANGED <<ret, reported, failures, rdClosed>>
       ELSE /\ rdClosed' = TRUE
            /\ failures' = failures \cup {"tarStart"}
            /\ ReturnErr({"tarStart"})
            /\ UNCHANGED <<tarState, tarTotal, tarLeft>>
  /\ UNCHANGED <<runs, cancelled, noPause,
                 oldest, key, calls, deletedKey, startVars>>
  /\ UNCHANGED <<tarExit, tarPipe>>
  /\ UNCHANGED <<envVars, cVars, uVars, gzVars>>
  /\ UNCHANGED crVars

\* An OS pipe (tar.StdoutPipe, gz.StdoutPipe) takes a write only while it
\* buffers fewer than PipeCap units.
\* (variant of the pipe below that buffers without limit)
PipeAlwaysHasRoom(n) == TRUE
PipeHasRoom(n) == n < PipeCap

\* The tar process writes a unit to its stdout; the write blocks while the
\* pipe is full.
TarWrite ==
  /\ Running
  /\ tarState = "running"
  /\ tarLeft > 0
  /\ PipeHasRoom(tarPipe)
  /\ ~rdClosed
  /\ tarLeft' = tarLeft - 1
  /\ tarPipe' = tarPipe + 1
  /\ UNCHANGED <<tarState, tarExit, tarTotal, rdClosed>>
  /\ UNCHANGED <<envVars, runVars, cVars, uVars, gzVars>>
  /\ UNCHANGED crVars

\* The tar process exits: with status 0 once it has written everything, or
\* non-zero at any point.
TarExit(ok) ==
  /\ Running
  /\ tarState = "running"
  /\ ok => tarLeft = 0
  /\ tarState' = "exited"
  /\ tarExit' = IF ok THEN "ok" ELSE "fail"
  /\ failures' = IF ok THEN failures ELSE failures \cup {"tar"}
  /\ UNCHANGED <<tarTotal, tarLeft, tarPipe, rdClosed>>
  /\ UNCHANGED <<runs, cancelled, pc, noPause, oldest, key, calls, deletedKey,
                 startVars, ret, reported>>
  /\ UNCHANGED <<envVars, cVars, uVars, gzVars>>
  /\ UNCHANGED crVars

\* `if err != nil` after tar.Wait(): tar exited with a non-zero status.
\* (variant of the check below that ignores tar's exit status)
TarFailedNever == FALSE
TarFailed == tarExit = "fail"

\* tar.Wait(): returns once tar has exited, closing the parent's read end
\* of its stdout pipe.  In part_006 the parent's end is the one the encoder
\* reads, so what is still buffered there is lost to a later read; in the
\* other versions gz reads the pipe through its own descriptor.
\* part_006 calls it right after tar.Start, backup.go after gz.Wait,
\* part_008 after systemctl start.
TarWait ==
  /\ pc = "tarWait"
  /\ tarState = "exited"
  /\ rdClosed' = TRUE
  /\ tarPipe' = IF variant = "zstd" THEN 0 ELSE tarPipe
  /\ IF TarFailed
       THEN ReturnErr({"tar"})
       ELSE /\ pc' = IF variant = "zstd" THEN "recvC"
                     ELSE IF noPause \/ variant = "xz" THEN "checkUpload"
                     ELSE "start"
            /\ UNCHANGED <<ret, reported>>
  /\ UNCHANGED <<runs, cancelled, noPause,
                 oldest, key, calls, deletedKey, startVars,
                 failures>>
  /\ UNCHANGED <<tarState, tarExit, tarTotal, tarLeft>>
  /\ UNCHANGED <<envVars, cVars, uVars, gzVars>>
  /\ UNCHANGED crVars

\* ------------------------------------------------- the pipeline, part_006

\* countingreader (wrapped around zstdReader and given to the upload as its
\* body): a Read that returns n units adds n to ReadBytes.
\* (variant of the count below that keeps only the last Read's size)
CountReadLast(n) == n
CountRead(n) == readBytes + n

\* slog.Uint64("compressed_bytes", reader.ReadBytes)
\* (variant of the field below that logs zstdResult.UncompressedBytes)
LoggedUncompressed == tarTotal - tarLeft
LoggedCompressed == readBytes


\* enc.ReadFrom(tarStdoutReader), one Read: a unit from the pipe; io.EOF
\* once tar has exited and the pipe is drained (ReadFrom returns nil); an
\* error once the read end has been closed (ReadFrom returns it).
CRead ==
  /\ Running
  /\ cState = "reading"
  /\ encBuf = 0
  /\ IF rdClosed
       THEN /\ cErr' = TRUE
            /\ cState' = "sending"
            /\ failures' = failures \cup {"zstd"}
            /\ UNCHANGED <<encBuf, tarPipe>>
       ELSE IF tarPipe > 0
       THEN /\ tarPipe' = tarPipe - 1
            /\ encBuf' = 1
            /\ UNCHANGED <<cErr, cState, failures>>
       ELSE /\ tarState = "exited"
            /\ cState' = "sending"
            /\ UNCHANGED <<cErr, encBuf, tarPipe, failures>>
  /\ UNCHANGED <<runs, cancelled, pc, noPause, oldest, key, calls, deletedKey,
                 startVars, ret, reported>>
  /\ UNCHANGED <<tarState, tarExit, tarTotal, tarLeft, rdClosed, zClosed>>
  /\ UNCHANGED <<envVars, uVars, gzVars>>
  /\ UNCHANGED crVars

\* The encoder writes a block to zstdWriter: io.Pipe has no buffer, so the
\* write completes only as the upload reads the block from zstdReader.
CWrite ==
  /\ Running
  /\ cState = "reading"
  /\ encBuf = 1
  /\ uState = "reading"
  /\ encBuf' = 0
  /\ uRecv' = uRecv + 1
  /\ readBytes' = CountRead(1)
  /\ UNCHANGED loggedBytes
  /\ UNCHANGED <<cState, cErr, zClosed, uState, uTrailer, uploadErr>>
  /\ UNCHANGED <<envVars, runVars, tarVars, gzVars>>

\* `if zstdResult.err != nil`
\* (variant of the check below that ignores ReadFrom's error)
CompressFailedNever == FALSE
CompressFailed == cErr

\* compressResultChan <- ... meets zstdResult := <-compressResultChan: the
\* channel has no buffer, so the goroutine's send completes only when
\* backup receives.
CSend ==
  /\ pc = "recvC"
  /\ cState = "sending"
  /\ cState' = "done"
  /\ IF CompressFailed
       THEN ReturnErr({"zstd"})
       ELSE /\ pc' = "encClose"
            /\ UNCHANGED <<ret, reported>>
  /\ UNCHANGED <<runs, cancelled, noPause,
                 oldest, key, calls, deletedKey, startVars,
                 failures>>
  /\ UNCHANGED <<cErr, encBuf, zClosed>>
  /\ UNCHANGED <<envVars, tarVars, uVars, gzVars>>
  /\ UNCHANGED crVars

\* enc.Close(): writes the final block to zstdWriter (which the upload must
\* read for the write to complete), or reports an encoder error.
EncClose(ok) ==
  /\ pc = "encClose"
  /\ IF ok
       THEN /\ uState = "reading"
            /\ uTrailer' = TRUE
            /\ readBytes' = CountRead(1)
            /\ pc' = "pipeClose"
            /\ UNCHANGED <<ret, reported, failures>>
       ELSE /\ failures' = failures \cup {"encClose"}
            /\ ReturnErr({"encClose"})
            /\ UNCHANGED <<uTrailer, readBytes>>
  /\ UNCHANGED loggedBytes
  /\ UNCHANGED <<runs, cancelled, noPause,
                 oldest, key, calls, deletedKey, startVars>>
  /\ UNCHANGED <<uState, uRecv, uploadErr>>
  /\ UNCHANGED <<envVars, tarVars, cVars, gzVars>>

\* After zstdWriter.Close() backup waits for the upload: <-uploadErr.
\* (variant of the step below that returns without the upload's result)
AfterPipeCloseNoWait == AfterBackup
AfterPipeClose == "recvU"

\* zstdWriter.Close(): the upload's next read returns io.EOF.
PipeClose ==
  /\ pc = "pipeClose"
  /\ zClosed' = TRUE
  /\ pc' = AfterPipeClose
  /\ UNCHANGED <<runs, cancelled, noPause,
                 oldest, key, calls, deletedKey, startVars,
                 ret, reported, failures>>
  /\ UNCHANGED <<cState, cErr, encBuf>>
  /\ UNCHANGED <<envVars, tarVars, uVars, gzVars>>
  /\ UNCHANGED crVars

\* The upload itself ends in the goroutine: the uploader reads a first part
\* before it makes any request, so it can fail once it has read something
\* (it then stops reading), and it completes, or fails, at io.EOF.  Once the
\* context is cancelled it fails wherever it is.
UploadEnd(ok) ==
  /\ Running
  /\ variant = "zstd"
  /\ uState = "reading"
  /\ IF ok
       THEN /\ zClosed
            /\ CtxLive
            /\ PutObject(uRecv, uTrailer)
            /\ uploadErr' = "nil"
            /\ UNCHANGED failures
       ELSE /\ zClosed \/ uRecv > 0 \/ cancelled
            /\ uploadErr' = "fail"
            /\ failures' = failures \cup {"upload"}
            /\ UNCHANGED bucket
  /\ uState' = "sending"
  /\ UNCHANGED <<runs, cancelled, pc, noPause, oldest, key, calls, deletedKey,
                 startVars, ret, reported>>
  /\ UNCHANGED <<variant, loopVarPerIter, keyed, listed, now, svcRunning>>
  /\ UNCHANGED <<uRecv, uTrailer>>
  /\ UNCHANGED <<tarVars, cVars, gzVars>>
  /\ UNCHANGED crVars

\* `if <-uploadErr != nil`
\* (variant of the check below that ignores the upload's error)
UploadFailedNever == FALSE
UploadFailed == uploadErr = "fail"

\* uploadErr <- err meets <-uploadErr; backup then returns to Run.
USend ==
  /\ pc = "recvU"
  /\ uState = "sending"
  /\ uState' = "done"
  /\ IF UploadFailed
       THEN /\ ReturnErr({"upload"})
            /\ UNCHANGED loggedBytes
       ELSE /\ pc' = AfterBackup
            /\ loggedBytes' = LoggedCompressed
            /\ UNCHANGED <<ret, reported>>
  /\ UNCHANGED readBytes
  /\ UNCHANGED <<runs, cancelled, noPause,
                 oldest, key, calls, deletedKey, startVars,
                 failures>>
  /\ UNCHANGED <<uRecv, uTrailer, uploadErr>>
  /\ UNCHANGED <<envVars, tarVars, cVars, gzVars>>

\* ------------------------------------------------ the pipeline, backup.go

\* gz.Start(); then key := calculateKey(o.Prefix) and uploader.Upload(...),
\* which Run calls itself and which returns when the upload has ended.
GzStart(ok) ==
  /\ pc = "gzStart"
  /\ IF ok
       THEN /\ gzState' = "running"
            /\ key' = calculateKey(variant, Prefix, now)
            /\ Call("upload", "invoked")
            /\ uState' = "reading"
            /\ pc' = "upload"
            /\ UNCHANGED <<ret, reported, failures>>
       ELSE /\ failures' = failures \cup {"gzStart"}
            /\ ReturnErr({"gzStart"})
            /\ UNCHANGED <<gzState, key, calls, uState>>
  /\ UNCHANGED <<runs, cancelled, noPause, oldest, deletedKey, startVars>>
  /\ UNCHANGED <<gzExit, gzPipe, uRecv, uTrailer, uploadErr>>
  /\ UNCHANGED <<envVars, tarVars, cVars>>
  /\ UNCHANGED crVars

\* The gz process compresses a unit from its stdin to its stdout; the write
\* blocks while the stdout pipe is full.
GzCopy ==
  /\ Running
  /\ gzState = "running"
  /\ tarPipe > 0
  /\ PipeHasRoom(gzPipe)
  /\ tarPipe' = tarPipe - 1
  /\ gzPipe' = gzPipe + 1
  /\ UNCHANGED <<tarState, tarExit, tarTotal, tarLeft, rdClosed>>
  /\ UNCHANGED <<gzState, gzExit>>
  /\ UNCHANGED <<envVars, runVars, cVars, uVars>>
  /\ UNCHANGED crVars

\* The gz process exits: with status 0 at end of input (tar has exited and
\* the pipe is drained) after writing its trailer, or non-zero at any point.
GzExit(ok) ==
  /\ Running
  /\ gzState = "running"
  /\ IF ok
       THEN /\ tarState = "exited"
            /\ tarPipe = 0
            /\ PipeHasRoom(gzPipe)
            /\ gzPipe' = gzPipe + 1
            /\ gzExit' = "ok"
            /\ UNCHANGED failures
       ELSE /\ gzExit' = "fail"
            /\ failures' = failures \cup {"gz"}
            /\ UNCHANGED gzPipe
  /\ gzState' = "exited"
  /\ UNCHANGED <<runs, cancelled, pc, noPause, oldest, key, calls, deletedKey,
                 startVars, ret, reported>>
  /\ UNCHANGED <<envVars, tarVars, cVars, uVars>>
  /\ UNCHANGED crVars

\* uploader.Upload reads a unit of gz's stdout.
UploadRead ==
  /\ pc = "upload"
  /\ gzPipe > 0
  /\ gzPipe' = gzPipe - 1
  /\ uRecv' = uRecv + 1
  /\ UNCHANGED <<gzState, gzExit, uState, uTrailer, uploadErr>>
  /\ UNCHANGED <<envVars, runVars, tarVars, cVars>>
  /\ UNCHANGED crVars

\* uploader.Upload returns: with an error once it has read something, or at
\* end of stream (gz has exited and its pipe is drained) with the object
\* stored or with an error.  The stream ends with gz's trailer when gz
\* exited with status 0.
UploadReturn(ok) ==
  /\ pc = "upload"
  /\ LET eof == gzState = "exited" /\ gzPipe = 0
         trailer == gzExit = "ok"
     IN  IF ok
           THEN /\ eof
                /\ PutObject(IF trailer THEN uRecv - 1 ELSE uRecv, trailer)
                /\ uTrailer' = trailer
                /\ uploadErr' = "nil"
                /\ UNCHANGED failures
           ELSE /\ eof \/ uRecv > 0
                /\ uploadErr' = "fail"
                /\ failures' = failures \cup {"upload"}
                /\ UNCHANGED <<bucket, uTrailer>>
  /\ uState' = "done"
  /\ pc' = IF variant = "xz" THEN (IF noPause THEN "tarWait" ELSE "start")
            ELSE "gzWait"
  /\ UNCHANGED <<runs, cancelled, noPause,
                 oldest, key, calls, deletedKey, startVars,
                 ret, reported>>
  /\ UNCHANGED <<variant, loopVarPerIter, keyed, listed, now, svcRunning>>
  /\ UNCHANGED uRecv
  /\ UNCHANGED <<tarVars, cVars, gzVars>>
  /\ UNCHANGED crVars

\* `if err != nil` after gz.Wait(): gz exited with a non-zero status.
\* (variant of the check below that ignores gz's exit status)
GzFailedNever == FALSE
GzFailed == gzExit = "fail"

\* gz.Wait(): returns once gz has exited.
GzWait ==
  /\ pc = "gzWait"
  /\ gzState = "exited"
  /\ IF GzFailed
       THEN ReturnErr({"gz"})
       ELSE /\ pc' = "tarWait"
            /\ UNCHANGED <<ret, reported>>
  /\ UNCHANGED <<runs, cancelled, noPause,
                 oldest, key, calls, deletedKey, startVars,
                 failures>>
  /\ UNCHANGED <<envVars, tarVars, cVars, uVars, gzVars>>
  /\ UNCHANGED crVars

\* `uploadErr != nil`, the test Run makes on the error Upload returned.
\* (variant of the test below that never sees the error)
UploadErrIgnored == FALSE
UploadErrNotNil == uploadErr = "fail"

\* if uploadErr != nil { return ... }, after Plex has been started.
CheckUpload ==
  /\ pc = "checkUpload"
  /\ IF UploadErrNotNil
       THEN ReturnErr({"upload"})
       ELSE /\ pc' = "delete"
            /\ UNCHANGED <<ret, reported>>
  /\ UNCHANGED <<runs, cancelled, noPause,
                 oldest, key, calls, deletedKey, startVars,
                 failures>>
  /\ UNCHANGED <<envVars, tarVars, cVars, uVars, gzVars>>
  /\ UNCHANGED crVars

\* ------------------------------------------------------- specification

\* The steps of a run: of Run itself, of its goroutines and of the
\* processes it started.
RunNext ==
  \/ \E ok \in BOOLEAN : List(ok)
  \/ \E ok \in BOOLEAN : Stop(ok)
  \/ \E ok \in BOOLEAN : PipeSetup(ok)
  \/ \E ok \in BOOLEAN : TarStart(ok)
  \/ TarWrite
  \/ \E ok \in BOOLEAN : TarExit(ok)
  \/ TarWait
  \/ CRead
  \/ CWrite
  \/ CSend
  \/ \E ok \in BOOLEAN : EncClose(ok)
  \/ PipeClose
  \/ \E ok \in BOOLEAN : UploadEnd(ok)
  \/ USend
  \/ \E ok \in BOOLEAN : GzStart(ok)
  \/ GzCopy
  \/ \E ok \in BOOLEAN : GzExit(ok)
  \/ UploadRead
  \/ \E ok \in BOOLEAN : UploadReturn(ok)
  \/ GzWait
  \/ CheckUpload
  \/ \E ok \in BOOLEAN : Start(ok)
  \/ \E ok \in BOOLEAN : Delete(ok)

Next ==
  \/ Tick
  \/ \E np \in BOOLEAN : StartRun(np)
  \/ RunNext

Spec == Init /\ [][Next]_vars

\* The same runs, of the older version part_008 as well.
SpecOlder == InitOf(Variants \cup OlderVariants) /\ [][Next]_vars

\* ---- key computation on its own: the prefixes and instants it is given

\* -prefix values: with and without a trailing separator, and none.
KeyPrefixes == {<<"p", "l", "e", "x", "/">>, <<"p", "l", "e", "x">>, <<>>}

\* Unix seconds: 1970-01-01T00:00:00Z, 2000-02-29T23:59:59Z,
\* 2019-01-06T22:38:21Z, 2019-12-31T23:59:59Z, 2024-02-29T11:59:59Z.
KeyBases == {0, 951868799, 1546814301, 1577836799, 1709207999}

\* A second, a minute, an hour, half a day, a day.
KeySteps == {1, 60, 3600, 43200, 86400}

Instants == {b + k * s : b \in KeyBases, s \in KeySteps, k \in 0..MaxStep}

\* One computation of the key at the instant t for the prefix p; the one
\* before it is kept.  The prefix is the same from one computation to the
\* next (the -prefix flag of a deployment).
CalculateKey(p, t) ==
  /\ pc = "idle"
  /\ runs = 0
  /\ keyed.cur = NoKey \/ p = keyed.cur.prefix
  /\ keyed' = [prev |-> keyed.cur,
               cur  |-> [prefix |-> p, t |-> t,
                         key |-> KeyText(variant, p, t)]]
  /\ UNCHANGED <<variant, loopVarPerIter, listed, now, bucket, svcRunning>>
  /\ UNCHANGED <<runVars, tarVars, cVars, uVars, gzVars>>
  /\ UNCHANGED crVars

KeyNext == \E p \in KeyPrefixes, t \in Instants : CalculateKey(p, t)

KeySpec == Init /\ [][KeyNext]_vars

\* ---- oldestObject on its own: the listings it is given

\* The objects a listing can hold: keys under the prefix, LastModified in
\* 1..MaxList.
ListObjects ==
  {[key |-> <<Prefix, k, Ext(variant)>>, lm |-> t] :
     k \in 1..MaxList, t \in 1..MaxList}

\* Listings: up to MaxList objects of different keys, in any order.
Listings ==
  {c \in UNION {[1..n -> ListObjects] : n \in 0..MaxList} :
     \A i, j \in 1..Len(c) : i # j => c[i].key # c[j].key}

\* One call of oldestObject: the list call fails, or returns `contents`.
OldestObject(contents, ok) ==
  /\ pc = "idle"
  /\ runs = 0
  /\ ~listed.called
  /\ listed' = [contents |-> contents, ok |-> ok,
                oldest |-> IF ok THEN oldestObject(variant, loopVarPerIter,
                                                   contents)
                                ELSE NoObject,
                err |-> ~ok, called |-> TRUE]
  /\ UNCHANGED <<variant, loopVarPerIter, keyed, now, bucket, svcRunning>>
  /\ UNCHANGED <<runVars, tarVars, cVars, uVars, gzVars>>
  /\ UNCHANGED crVars

ListNext == \E c \in Listings, ok \in BOOLEAN : OldestObject(c, ok)

ListSpec == Init /\ [][ListNext]_vars

\* The caller of Run cancels the context it passed.  (main passes
\* context.Background(), which is never cancelled: Spec has no such step.
\* backup.go's Run takes no context.)
Cancel ==
  /\ Running
  /\ variant = "zstd"
  /\ ~cancelled
  /\ cancelled' = TRUE
  /\ UNCHANGED <<runs, pc, noPause, oldest, key, calls, deletedKey,
                 startVars, ret, reported, failures>>
  /\ UNCHANGED <<envVars, tarVars, cVars, uVars, gzVars>>
  /\ UNCHANGED crVars

NextCancel == Next \/ Cancel

\* Runs whose caller may cancel the context.
SpecCancel == Init /\ [][NextCancel]_vars

\* ------------------------------------------------------------- the claims

\* The failures of the archive | compress | upload step.
StageFailures    == {"pipe", "tarStart", "tar", "zstd", "encClose", "gz",
                     "gzStart"}
PipelineFailures == StageFailures \cup {"upload"}

PipelineFailed == failures \cap PipelineFailures # {}

Made(op)          == \E i \in 1..Len(calls) : calls[i].op = op
Succeeded(op)     == \E i \in 1..Len(calls) :
                       calls[i].op = op /\ calls[i].res = "ok"
CountOf(op)       == Cardinality({i \in 1..Len(calls) : calls[i].op = op})
ServiceCalls      == SelectSeq(calls, LAMBDA c : c.op \in {"stop", "start"})
Returned          == pc = "returned"

\* C1: with pausing enabled and a stop that succeeded, when the archive,
\* compress and upload step has failed, start has been invoked exactly once
\* by the time Run returns.
C1_ResumeAfterPipelineFailure ==
  (Returned /\ ~noPause /\ Succeeded("stop") /\ PipelineFailed)
    => CountOf("start") = 1

C3_NilMeansRunning ==
  (ret = "nil" /\ ~noPause) =>
     /\ Succeeded("stop")
     /\ ServiceCalls # <<>>
     /\ ServiceCalls[Len(ServiceCalls)] = [op |-> "start", res |-> "ok"]
     /\ svcRunning

C3_Witness == ret = "nil" /\ ~noPause /\ Len(ServiceCalls) = 2

\* C4: the key passed to the delete call is the key of the object that the
\* listing made before the upload identified as oldest, and it is not the
\* key of the object this run uploaded.
C4_DeleteTargetsOldestNotNew ==
  deletedKey # <<>> =>
     /\ deletedKey = oldest.key
     /\ deletedKey \in keysAtStart
     /\ deletedKey # key

\* C5: Run returns for every combination of outcomes: as long as Run has
\* not returned, Run, one of its goroutines or one of its processes can take
\* a step (none of them waits for ever on a pipe or a channel).
C5_RunNeverBlocksForEver == Running => ENABLED RunNext

\* C6: in part_006, when a stage of the pipeline has failed (tar did not
\* start or exited non-zero, the stream from tar gave an error, the encoder
\* gave an error), the upload has not completed successfully; the stream of
\* an upload that completed successfully is the whole archive, compressed,
\* with the encoder's final block.
C6_NoUploadOfPartialStream ==
  variant = "zstd" =>
     /\ (failures \cap StageFailures # {}) => uploadErr # "nil"
     /\ uploadErr = "nil" => (uRecv = tarTotal /\ uTrailer)

C6_Witness ==
  /\ variant = "zstd"
  /\ Returned
  /\ "tar" \in failures
  /\ tarLeft < tarTotal
  /\ uRecv > 0

\* C7: when the listing has failed, Run has returned an error and list is
\* the only call it made: no stop, no archiver, no upload, no start, no
\* delete.
C7_ListFailureTouchesNothing ==
  ("list" \in failures) =>
     /\ ret = "error"
     /\ calls = <<[op |-> "list", res |-> "fail"]>>
     /\ tarState = "notstarted"
     /\ uState = "notstarted"
     /\ deletedKey = <<>>

C7_Witness == "list" \in failures /\ Returned /\ bucket # {}

\* C8: with pausing enabled, when stop has failed, Run has returned an
\* error, no archiver process was started, and no upload, start or delete
\* call was made.
C8_StopFailureAborts ==
  ("stop" \in failures) =>
     /\ ret = "error"
     /\ tarState = "notstarted"
     /\ gzState = "notstarted"
     /\ ~Made("upload") /\ uState = "notstarted"
     /\ ~Made("start")
     /\ ~Made("delete")

C8_Witness == "stop" \in failures /\ Returned /\ ~noPause /\ bucket # {}

\* C9: a failure of the delete never makes Run fail: when Run has returned
\* and nothing but the delete failed, it returned nil.
C9_DeleteFailureNotFatal ==
  (Returned /\ failures \subseteq {"delete"}) => ret = "nil"

C9_Witness == Returned /\ failures = {"delete"} /\ ret = "nil"

\* C10: when the pipeline or upload step failed and the start that followed
\* failed too, the error Run returns reports both failures.
C10_BothFailuresReported ==
  (Returned /\ PipelineFailed /\ "start" \in failures) =>
     /\ "start" \in reported
     /\ reported \cap PipelineFailures # {}

\* The operations of this run's external calls, in order.
Ops == [i \in 1..Len(calls) |-> calls[i].op]

\* The pipeline step ended well: no stage failed and the upload returned nil.
BackupSucceeded == ~PipelineFailed /\ uploadErr = "nil"

\* C11: when the backup succeeded and the start that followed failed, Run
\* returns an error that reports the start failure, and the upload and the
\* delete of the object found oldest have both been made.
C11_ResumeFailureStillPrunes ==
  (Returned /\ BackupSucceeded /\ "start" \in failures) =>
     /\ ret = "error"
     /\ "start" \in reported
     /\ Made("upload")
     /\ (oldest # NoObject => Made("delete"))

\* C12: a run with pausing and an object under the prefix that returned nil
\* made exactly the calls list, stop, upload, start, delete in this order,
\* the delete being of a key listed at the start; and in every state start
\* is called only when the upload has returned.
C12_CallOrderOnSuccess ==
  /\ (ret = "nil" /\ ~noPause /\ oldest # NoObject) =>
        /\ Ops = <<"list", "stop", "upload", "start", "delete">>
        /\ deletedKey \in keysAtStart
  /\ Made("start") => (uState = "done" /\ uploadErr # "none")

C12_Witness ==
  /\ ret = "nil" /\ ~noPause /\ oldest # NoObject
  /\ Succeeded("delete")

\* C13: with NoPause neither stop nor start is ever called; and with or
\* without pausing the other calls of a run that returned nil are list,
\* upload and, when an object was found, delete.
C13_NoPauseSkipsService ==
  /\ (runs > 0 /\ noPause) => ServiceCalls = <<>>
  /\ ret = "nil" =>
        SelectSeq(Ops, LAMBDA o : o \notin {"stop", "start"}) =
          IF oldest = NoObject THEN <<"list", "upload">>
                               ELSE <<"list", "upload", "delete">>

C13_Witness ==
  /\ ret = "nil" /\ noPause /\ oldest # NoObject
  /\ Ops = <<"list", "upload", "delete">>

\* C14: with pausing, when tar exited non-zero the calls Run made by its
\* return are list, stop, start, Run returns an error, no upload completed
\* and no delete was called.
C14_ArchiverFailureSequence ==
  (Returned /\ ~noPause /\ tarExit = "fail") =>
     /\ ret = "error"
     /\ SelectSeq(Ops, LAMBDA o : o # "upload") = <<"list", "stop", "start">>
     /\ uploadErr # "nil"
     /\ ~Made("delete")

\* C15: when the listing returned no objects, no delete call is made.
C15_EmptyListingNoDelete ==
  (Succeeded("list") /\ keysAtStart = {}) =>
     (~Made("delete") /\ deletedKey = <<>>)

C15_Witness ==
  /\ ret = "nil" /\ keysAtStart = {} /\ Succeeded("list")
  /\ \E o \in bucket : o.key = key

Keys(b) == {o.key : o \in b}

\* C16 (as the spec states it): after each run that returned nil exactly one
\* object exists under the prefix.
C16_ExactlyOneBackup == ret = "nil" => Cardinality(bucket) = 1

\* C16 (amended): after a run that returned nil, a prefix that was empty
\* holds exactly one object, and when the run's delete call succeeded the
\* prefix holds no more objects than when the run began.
C16_PruneKeepsCount ==
  ret = "nil" =>
     /\ keysAtStart = {} => Cardinality(bucket) = 1
     /\ Succeeded("delete") =>
          Cardinality(bucket) <= Cardinality(keysAtStart)

C16_Witness ==
  /\ ret = "nil" /\ Succeeded("delete")
  /\ Cardinality(keysAtStart) = 1 /\ Cardinality(bucket) = 1
  /\ key \notin keysAtStart

\* C17 (as the spec states it): when Run returned nil the new backup is in
\* the bucket and the object found oldest is gone, or none existed.
C17_NilMeansUploadedAndPruned ==
  ret = "nil" =>
     /\ \E o \in bucket : o.key = key /\ o.complete
     /\ keysAtStart = {} \/ oldest.key \notin Keys(bucket)

\* C17 (amended): when Run returned nil the upload read the stream to the
\* compressor's final block and returned without error, and either
\* nothing was under the prefix and no delete was called, or a delete of a
\* key listed before the run was called; when that delete succeeded the key
\* is gone from the bucket.
C17_NilMeansUploadedAndDeleteTried ==
  ret = "nil" =>
     /\ uploadErr = "nil" /\ uTrailer
     /\ IF keysAtStart = {}
          THEN ~Made("delete")
          ELSE /\ Made("delete")
               /\ deletedKey \in keysAtStart
               /\ Succeeded("delete") => deletedKey \notin Keys(bucket)

C17_Witness ==
  /\ ret = "nil" /\ "delete" \in failures
  /\ deletedKey \in Keys(bucket)
  /\ \E o \in bucket : o.key = key /\ o.complete

\* The failures a cancelled context brings about: calls that take the
\* context fail, tar is killed, and the encoder may find tar's pipe closed.
CtxFailures == {"tarStart", "tar", "zstd", "upload", "start", "delete"}

\* C18 (under SpecCancel): when the context was cancelled after stop had
\* succeeded, start has been called by the time Run returns.  (stop cannot
\* succeed once the context is cancelled, so a cancelled run whose stop
\* succeeded was cancelled after it; the runs looked at are those in which
\* nothing failed but what the cancellation brings about.)
C18_CancelStillResumes ==
  (Returned /\ cancelled /\ Succeeded("stop")
     /\ failures \subseteq CtxFailures) => Made("start")

\* ---- reading a timestamp back (for the claims about the key's text)

IsDigit(c) == \E n \in 0..9 : Digit[n + 1] = c
DigitValue(c) == CHOOSE n \in 0..9 : Digit[n + 1] = c

RECURSIVE Num(_)
Num(cs) ==
  IF cs = <<>> THEN 0
  ELSE 10 * Num(SubSeq(cs, 1, Len(cs) - 1)) + DigitValue(cs[Len(cs)])

\* Days from 1970-01-01 to the civil date y-m-d.
DaysFromCivil(y, m, d) ==
  LET yy  == IF m <= 2 THEN y - 1 ELSE y
      era == yy \div 400
      yoe == yy - era * 400
      doy == (153 * (IF m > 2 THEN m - 3 ELSE m + 9) + 2) \div 5 + d - 1
      doe == yoe * 365 + yoe \div 4 - yoe \div 100 + doy
  IN  era * 146097 + doe - 719468

\* The Unix second a text of the form YYYY-MM-DDThh:mm:ssZ names, or -1
\* when the text is not of that form.
ParseRFC3339(ts) ==
  IF /\ Len(ts) = 20
     /\ ts[5] = "-" /\ ts[8] = "-" /\ ts[11] = "T"
     /\ ts[14] = ":" /\ ts[17] = ":" /\ ts[20] = "Z"
     /\ \A i \in (1..20) \ {5, 8, 11, 14, 17, 20} : IsDigit(ts[i])
     /\ Num(SubSeq(ts, 6, 7)) \in 1..12
     /\ Num(SubSeq(ts, 9, 10)) \in 1..31
     /\ Num(SubSeq(ts, 12, 13)) \in 0..23
     /\ Num(SubSeq(ts, 15, 16)) \in 0..59
     /\ Num(SubSeq(ts, 18, 19)) \in 0..59
  THEN DaysFromCivil(Num(SubSeq(ts, 1, 4)), Num(SubSeq(ts, 6, 7)),
                     Num(SubSeq(ts, 9, 10))) * 86400
       + Num(SubSeq(ts, 12, 13)) * 3600
       + Num(SubSeq(ts, 15, 16)) * 60
       + Num(SubSeq(ts, 18, 19))
  ELSE -1

\* C19 (under KeySpec): two keys computed for one prefix at different
\* seconds are different.
C19_DistinctInstantsDistinctKeys ==
  (/\ keyed.prev # NoKey
   /\ keyed.prev.prefix = keyed.cur.prefix
   /\ keyed.prev.t # keyed.cur.t) => keyed.prev.key # keyed.cur.key

C19_Witness ==
  /\ keyed.prev # NoKey
  /\ keyed.prev.prefix = keyed.cur.prefix
  /\ keyed.cur.t = keyed.prev.t + 43200
  /\ keyed.prev.key # keyed.cur.key

\* C20 (under KeySpec): a key is the prefix as given, then the twenty
\* characters YYYY-MM-DDThh:mm:ssZ that name the second it was computed at,
\* then the version's archive extension, and nothing else.
C20_KeyIsPrefixStampExt ==
  \A e \in {keyed.prev, keyed.cur} :
     e # NoKey =>
        LET n == Len(e.prefix)
            x == ExtChars(variant)
        IN  /\ Len(e.key) = n + 20 + Len(x)
            /\ SubSeq(e.key, 1, n) = e.prefix
            /\ ParseRFC3339(SubSeq(e.key, n + 1, n + 20)) = e.t
            /\ SubSeq(e.key, n + 21, Len(e.key)) = x

C20_Witness ==
  /\ variant = "zstd"
  /\ keyed.cur.prefix = <<"p", "l", "e", "x">>
  /\ keyed.cur.t = 1546814301
  /\ keyed.cur.key =
       <<"p", "l", "e", "x", "2", "0", "1", "9", "-", "0", "1", "-",
       "0", "6", "T", "2", "2", ":", "3", "8", ":", "2", "1", "Z", ".",
       "t", "a", "r", ".", "z", "s", "t">>

\* The units the upload read from its body: the blocks of data and the
\* encoder's final block.
UploadReadUnits == uRecv + (IF uTrailer THEN 1 ELSE 0)

\* C21: the compressed_bytes a run logs is the number of units the upload
\* read from the stream it was given.
C21_LoggedCountIsWhatUploadRead ==
  loggedBytes # -1 => loggedBytes = UploadReadUnits

C21_Witness ==
  /\ ret = "nil" /\ loggedBytes = MaxData + 1
  /\ UploadReadUnits = MaxData + 1

\* tar is running and has not yet read all it archives.
TarReading == tarState = "running" /\ tarLeft > 0

\* C22 (under SpecOlder): with pausing, tar runs only after stop succeeded,
\* and while tar is still reading the directory the service is stopped and
\* start has not been called.
C22_ArchiveOnlyWhileStopped ==
  ~noPause =>
     /\ tarState = "running" => Succeeded("stop")
     /\ TarReading => (~svcRunning /\ ~Made("start"))

\* The pipeline step reported success: in part_006 backup returned nil (Run
\* is at or past start), in backup.go Run is past its last check of the
\* step, that of the upload's error.
PipelineReportedOk ==
  /\ runs > 0
  /\ IF variant = "zstd"
       THEN pc \in {"start", "delete"} \/ Made("start") \/ ret = "nil"
       ELSE pc = "delete" \/ ret = "nil"

\* C23: when the pipeline step reported success, tar has exited with status
\* zero and been waited for, the compressor has finished without error (the
\* encoder's result received and the encoder closed, or gz exited zero and
\* waited for), and the upload has returned nil.
C23_SuccessMeansAllStagesClean ==
  PipelineReportedOk =>
     /\ tarState = "exited" /\ tarExit = "ok" /\ rdClosed
     /\ IF variant = "zstd"
          THEN cState = "done" /\ ~cErr /\ uTrailer
          ELSE gzState = "exited" /\ gzExit = "ok"
     /\ uState = "done" /\ uploadErr = "nil"
     /\ ~PipelineFailed

C23_Witness ==
  /\ PipelineReportedOk /\ variant = "gz" /\ pc = "delete"
  /\ gzExit = "ok" /\ tarExit = "ok" /\ uploadErr = "nil"

\* C24: in part_006, when the pipeline step reported success tar wrote the
\* whole archive, nothing of it is left in a pipe or in the encoder, the
\* upload read all of it and then the encoder's final block; and in every
\* state the pipe writer is closed only after the encoder was closed, and
\* the upload returns nil only after the pipe writer was closed.
C24_UploadedStreamIsWhole ==
  variant = "zstd" =>
     /\ PipelineReportedOk =>
          /\ tarLeft = 0 /\ tarPipe = 0 /\ encBuf = 0
          /\ uRecv = tarTotal /\ uTrailer /\ zClosed
     /\ zClosed => uTrailer
     /\ uploadErr = "nil" => zClosed

C24_Witness ==
  /\ variant = "zstd" /\ PipelineReportedOk
  /\ tarTotal = MaxData /\ uRecv = MaxData /\ uTrailer

\* C25 (under ListSpec): when the list call fails oldestObject returns an
\* error and no object; when it succeeds it returns no error, none for an
\* empty listing, and otherwise an object of the listing whose LastModified
\* is the least of all.
C25_OldestIsMinimum ==
  listed.called =>
     IF ~listed.ok
       THEN listed.err /\ listed.oldest = NoObject
       ELSE /\ ~listed.err
            /\ IF listed.contents = <<>>
                 THEN listed.oldest = NoObject
                 ELSE /\ \E i \in 1..Len(listed.contents) :
                           listed.contents[i] = listed.oldest
                      /\ \A i \in 1..Len(listed.contents) :
                           listed.oldest.lm <= listed.contents[i].lm

\* C26: in part_006 the compression and upload goroutines are started
\* before tar is, so the three run side by side; and when the pipeline step
\* reported success tar has been waited for, the compressor's result has
\* been received and the upload has returned and its result been received.
C26_ProceedsOnlyWhenAllFinished ==
  variant = "zstd" =>
     /\ tarState # "notstarted" =>
          (cState # "notstarted" /\ uState # "notstarted")
     /\ PipelineReportedOk =>
          /\ tarState = "exited" /\ rdClosed
          /\ cState = "done"
          /\ uState = "done"

C26_Witness ==
  /\ variant = "zstd" /\ PipelineReportedOk /\ pc = "start"
  /\ tarState = "exited" /\ cState = "done" /\ uState = "done"

\* (reachable: tar still writing when the upload has read a block)
C26_AllThreeAtWork ==
  /\ variant = "zstd"
  /\ tarState = "running" /\ tarLeft > 0
  /\ cState = "reading"
  /\ uState = "reading" /\ uRecv > 0

\* C27 (under SpecCancel): in part_006, when the context was cancelled
\* after tar was started and before the pipeline step reported success,
\* Run's return is an error and leaves nothing of the run in flight: tar has
\* exited, and both goroutines have handed over their result and ended.
C27_CancelLeavesNothingInFlight ==
  (/\ variant = "zstd" /\ Returned /\ cancelled
   /\ tarState # "notstarted" /\ ~PipelineReportedOk) =>
     /\ ret = "error"
     /\ tarState = "exited"
     /\ cState = "done"
     /\ uState = "done"

\* C29: in part_006, in every run that returned with tar exited zero, no
\* encoder close error and no upload error, the read of tar's pipe did not
\* fail and the pipeline step reported success.
C29_WaitNeverBreaksTheRead ==
  (/\ variant = "zstd" /\ Returned /\ tarExit = "ok"
   /\ "encClose" \notin failures /\ "upload" \notin failures) =>
     (~cErr /\ PipelineReportedOk)

\* backup has returned: with an error (Run returns it at once) or with nil.
BackupReturned == Returned \/ PipelineReportedOk

\* C30: in part_006, once backup has returned, each goroutine it started has
\* ended, its result received: none is left at its channel send or at the
\* in-memory pipe.
C30_NoGoroutineLeftBlocked ==
  (variant = "zstd" /\ BackupReturned) =>
     /\ cState \in {"notstarted", "done"}
     /\ uState \in {"notstarted", "done"}

\* C28: in part_006 no stage holds more than its bound (tar's pipe PipeCap
\* units, the encoder one block) and nothing is held twice; while the pipe
\* is full tar cannot write, and while the encoder holds a block the upload
\* does not read, the encoder can neither write the block nor read more.
C28_BoundedBetweenStages ==
  variant = "zstd" =>
     /\ tarPipe <= PipeCap /\ encBuf <= 1
     /\ tarLeft + tarPipe + encBuf + uRecv <= tarTotal
     /\ tarPipe = PipeCap => ~ENABLED TarWrite
     /\ (encBuf = 1 /\ uState # "reading") =>
          (~ENABLED CWrite /\ ~ENABLED CRead)

\* The upload has stopped reading, the encoder holds a block it cannot
\* write, the pipe is full and tar, with data left, cannot write.
C28_Witness ==
  /\ variant = "zstd" /\ Running
  /\ uState = "sending" /\ uploadErr = "fail"
  /\ encBuf = 1 /\ tarPipe = PipeCap
  /\ tarState = "running" /\ tarLeft > 0
  /\ ~ENABLED TarWrite /\ ~ENABLED CWrite

\* C31: in backup.go's Run (tar and gz as two piped processes), when tar
\* has exited non-zero after writing part of the archive, then by the
\* time Run returns no upload of the new key has completed successfully:
\* no object holding a truncated archive is stored under the new key.
\* (The case taken is the one where tar's failure is the only failure.)
C31_NoTruncatedObjectAfterTarFailure ==
  (/\ variant = "gz"
   /\ Returned
   /\ tarExit = "fail"
   /\ 0 < tarLeft /\ tarLeft < tarTotal
   /\ failures = {"tar"})
  => /\ uploadErr # "nil"
     /\ ~\E o \in bucket : o.key = key /\ ~o.complete

\* C32: in backup.go's Run with pausing enabled, when gz and tar have both
\* exited cleanly but the upload returned an error, then by the time Run
\* returns start has been invoked exactly once, no delete has been issued,
\* and if start succeeded Run returns the upload error.
C32_UploadErrorStillResumesNeverDeletes ==
  (/\ variant = "gz"
   /\ ~noPause
   /\ Returned
   /\ gzExit = "ok" /\ tarExit = "ok"
   /\ uploadErr = "fail")
  => /\ CountOf("start") = 1
     /\ ~Made("delete")
     /\ deletedKey = <<>>
     /\ Succeeded("start") => (ret = "error" /\ reported = {"upload"})

C32_Witness ==
  /\ variant = "gz" /\ ~noPause /\ Returned
  /\ gzExit = "ok" /\ tarExit = "ok" /\ uploadErr = "fail"
  /\ Succeeded("start")
  /\ ret = "error" /\ reported = {"upload"}
  /\ ~Made("delete")

\* C33: in any single run each of list, stop, upload, start and delete is
\* invoked at most once, and start is invoked only after a stop of the same
\* run that succeeded.
C33_EachCallAtMostOnceStartAfterStop ==
  /\ \A op \in {"list", "stop", "upload", "start", "delete"} :
       CountOf(op) <= 1
  /\ \A i \in 1..Len(calls) :
       calls[i].op = "start" =>
         \E j \in 1..(i - 1) : calls[j] = [op |-> "stop", res |-> "ok"]

C33_Witness ==
  /\ Returned
  /\ Ops = <<"list", "stop", "upload", "start", "delete">>

\* The complete backups under the prefix.
Backups(b) == {o \in b : o.complete}

\* C34: over any sequence of runs of part_006's Run on one prefix, a run
\* that has returned leaves at least as many complete backups as the prefix
\* held when the run began, and a backup that was there and is gone was
\* removed by a run that stored a new complete backup under another key.
C34_RunNeverLosesABackup ==
  (variant = "zstd" /\ Returned) =>
    /\ Cardinality(Backups(bucket)) >= Cardinality(backupsAtStart)
    /\ \A o \in backupsAtStart :
         o.key \notin Keys(Backups(bucket)) =>
           \E n \in Backups(bucket) : n.key = key /\ n.key # o.key

====
